---------------------------- MODULE Spec2Model ----------------------------
(***************************************************************************)
(* Harvest Time Entry Analyzer (web-app/src/App.jsx): the App component's  *)
(* state, its event handlers and the memoised pipeline                     *)
(*   csvData -> processedData -> filteredData -> weeklyUtilization.        *)
(*                                                                         *)
(* Units.  A JavaScript Date is a number of milliseconds since the epoch;  *)
(* the model counts whole hours since the epoch (every instant used here   *)
(* is a whole hour), so oneDay is 24.  Hours worked are whole numbers.     *)
(* The local time zone is a fixed offset from UTC (no daylight saving).    *)
(***************************************************************************)
EXTENDS Integers, Sequences, FiniteSets, Bags, TLC

VARIABLES
    csvData,            \* useState([])       App.jsx:6
    loading,            \* useState(false)    App.jsx:7
    selectedEmployee,   \* useState('all')    App.jsx:8
    selectedClient,     \* useState('all')    App.jsx:9
    selectedProject,    \* useState('all')    App.jsx:10
    selectedTask,       \* useState('all')    App.jsx:11
    selectedDateRange,  \* useState('all')    App.jsx:12
    processedData,      \* the array held by the useMemo of App.jsx:47
    filteredData,       \* the array held by the useMemo of App.jsx:83
    weeklyUtilization,  \* the array held by the useMemo of App.jsx:127
    parsing,            \* the Papa.parse calls in flight, App.jsx:243
    now,                \* the wall clock, read by new Date() at App.jsx:103
    tz                  \* the browser's offset from UTC, in hours

vars == <<csvData, loading, selectedEmployee, selectedClient, selectedProject,
          selectedTask, selectedDateRange, processedData, filteredData,
          weeklyUtilization, parsing, now, tz>>

selections == <<selectedEmployee, selectedClient, selectedProject,
                selectedTask, selectedDateRange>>

-----------------------------------------------------------------------------
(* Bounds of the model.                                                    *)

\* longest uploaded file, in rows, of the pipeline specifications
MaxRows == 2
\* longest uploaded file, in rows, of the weekly specification
MaxWeekRows == 4
\* how many times the clock advances
MaxTicks == 2
\* how many Papa.parse calls may be in flight at once
MaxParsing == 2

\* the rows of a file uploaded for the breakdowns and the statistics
MaxInsightRows == 3

-----------------------------------------------------------------------------
(* JavaScript Date.  A Date is [valid, t]: t hours since 1970-01-01T00:00Z *)
(* when valid, and the Invalid Date (time value NaN) otherwise.            *)

InvalidDate == [valid |-> FALSE, t |-> 0]

DateAt(t) == [valid |-> TRUE, t |-> t]

\* 24 * 60 * 60 * 1000 ms, in hours
oneDay == 24

\* The calendar arithmetic of Date (days since the epoch <-> proleptic
\* Gregorian year, month 1..12, day), in steps that each name one quantity.
CivilOfMonth(y0, m, d) == [y |-> y0 + (IF m <= 2 THEN 1 ELSE 0), m |-> m, d |-> d]

CivilOfMp(doy, y0, mp) ==
    CivilOfMonth(y0, IF mp < 10 THEN mp + 3 ELSE mp - 9, doy - (153 * mp + 2) \div 5 + 1)

CivilOfDoy(doy, y0) == CivilOfMp(doy, y0, (5 * doy + 2) \div 153)

CivilOfYoe(doe, era, yoe) ==
    CivilOfDoy(doe - (365 * yoe + yoe \div 4 - yoe \div 100), yoe + era * 400)

CivilOfDoe(doe, era) ==
    CivilOfYoe(doe, era,
               (doe - doe \div 1460 + doe \div 36524 - doe \div 146096) \div 365)

CivilOfEra(z, era) == CivilOfDoe(z - era * 146097, era)

\* days since the epoch -> [y, m, d]
CivilFromDays(n) == CivilOfEra(n + 719468, (n + 719468) \div 146097)

DaysOfYoe(era, yoe, doy) ==
    era * 146097 + (yoe * 365 + yoe \div 4 - yoe \div 100 + doy) - 719468

DaysOfYear(yy, mp, d) ==
    DaysOfYoe(yy \div 400, yy - (yy \div 400) * 400, (153 * mp + 2) \div 5 + d - 1)

\* [y, m, d] -> days since the epoch
DaysFromCivil(y, m, d) ==
    DaysOfYear(IF m <= 2 THEN y - 1 ELSE y, IF m > 2 THEN m - 3 ELSE m + 9, d)

DaysInMonth(y, m) ==
    IF m = 12 THEN 31 ELSE DaysFromCivil(y, m + 1, 1) - DaysFromCivil(y, m, 1)

\* the local calendar day a valid Date falls on, in days since the epoch
LocalDay(date) == (date.t + tz) \div oneDay

\* Date.prototype.getDay: 0 = Sunday .. 6 = Saturday (1970-01-01: Thursday)
getDay(date) == (LocalDay(date) + 4) % 7

getDate(date) == CivilFromDays(LocalDay(date)).d

\* Date.prototype.getMonth: 0 = January
getMonth(date) == CivilFromDays(LocalDay(date)).m - 1

getFullYear(date) == CivilFromDays(LocalDay(date)).y

\* the first day of a month, in days since the epoch
MonthStart(c) == DaysFromCivil(c.y, c.m, 1)

\* Date.prototype.setDate(n): day n of the Date's local month, rolling over
\* into the neighbouring months when n is outside it; the time of day stays
setDate(date, n) ==
    DateAt(date.t + oneDay * (MonthStart(CivilFromDays(LocalDay(date))) + n - 1
                              - LocalDay(date)))

-----------------------------------------------------------------------------
(* Cells of a parsed CSV row.  A Date cell is absent (undefined), the      *)
(* empty string, a text that is no date, or the text yyyy-MM-dd made of    *)
(* the digits y, m, d (month 13 is such a text, and names no date).        *)

UndefinedCell == [kind |-> "undefined", y |-> 0, m |-> 0, d |-> 0]
EmptyCell     == [kind |-> "empty", y |-> 0, m |-> 0, d |-> 0]
TextCell      == [kind |-> "text", y |-> 0, m |-> 0, d |-> 0]
IsoCell(y, m, d) == [kind |-> "iso", y |-> y, m |-> m, d |-> d]

\* JavaScript truthiness of a cell: undefined and '' are falsy
Truthy(cell) == cell.kind \notin {"undefined", "empty"}

\* new Date(string): a date-only ISO text is midnight UTC of that day;
\* anything else here is the Invalid Date
NewDate(cell) ==
    IF /\ cell.kind = "iso"
       /\ cell.m \in 1..12
       /\ cell.d \in 1..DaysInMonth(cell.y, cell.m)
    THEN DateAt(DaysFromCivil(cell.y, cell.m, cell.d) * oneDay)
    ELSE InvalidDate

\* An Hours cell: a text that is no number, or the decimal text of v
HoursText   == [kind |-> "text", v |-> 0]
HoursNum(v) == [kind |-> "num", v |-> v]

\* parseFloat(string): the number a numeric text denotes, NaN otherwise
parseFloat(cell) == [nan |-> cell.kind # "num", v |-> cell.v]

\* x || 0 on a number: NaN and 0 are falsy
OrZero(x) == IF x.nan \/ x.v = 0 THEN 0 ELSE x.v

\* a parsed CSV row (Papa.parse, header: true): column name -> cell
RawRow(date, first, last, client, project, task, hours, billable) ==
    [Date |-> date, FirstName |-> first, LastName |-> last, Client |-> client,
     Project |-> project, Task |-> task, Hours |-> hours, Billable |-> billable]

INTERNAL_CLIENTS == {"Onica", "Rackspace Innovation In Action"}

\* the callback of csvData.map in processedData
processRow(row) ==
    [FirstName  |-> row.FirstName,
     LastName   |-> row.LastName,
     Client     |-> row.Client,
     Project    |-> row.Project,
     Task       |-> row.Task,
     Billable   |-> row.Billable,
     FullName   |-> row.FirstName \o " " \o row.LastName,
     Date       |-> NewDate(row.Date),
     Hours      |-> OrZero(parseFloat(row.Hours)),
     IsInternal |-> row.Client \in INTERNAL_CLIENTS]

\* csvData.map(row => ...)
MapRows(csv) == [i \in 1..Len(csv) |-> processRow(csv[i])]

\* results.data.filter(row => row['Date'])
DropUndated(data) == SelectSeq(data, LAMBDA row : Truthy(row.Date))

-----------------------------------------------------------------------------
(* Lookup lists.  [...new Set(xs)].filter(Boolean).sort() is the sorted    *)
(* list of the distinct non-empty values; the model keeps the set it lists.*)

\* the distinct values of a column
Values(data, field) == {data[i][field] : i \in 1..Len(data)}

employees == Values(processedData, "FullName")

clients == Values(processedData, "Client") \ {""}

projects ==
    IF selectedClient = "all" THEN {}
    ELSE Values(SelectSeq(processedData, LAMBDA row : row.Client = selectedClient),
                "Project") \ {""}

\* tasks looked up among the entries of the selected client only
tasksOfSelectedClient ==
    IF selectedProject = "all" THEN {}
    ELSE Values(SelectSeq(processedData,
                          LAMBDA row : /\ row.Project = selectedProject
                                       /\ row.Client = selectedClient),
                "Task") \ {""}

tasks ==
    IF selectedProject = "all" THEN {}
    ELSE Values(SelectSeq(processedData, LAMBDA row : row.Project = selectedProject),
                "Task") \ {""}

\* the texts of the files of the model in the order of Array.prototype.sort()
\* without a comparator: by UTF-16 code units, capitals before small letters
CodeUnitOrder ==
    <<"", " ", "Acme", "Ann Lee", "Bob Ray", "Dev", "Globex", "Onica", "Ops",
      "Plan", "QA", "Rackspace Innovation In Action", "Web", "constructor">>

\* [...values].sort()
SortTexts(values) == SelectSeq(CodeUnitOrder, LAMBDA text : text \in values)

\* the arrays the <option>s of the four selects are mapped from
employeesList == SortTexts(employees)

clientsList == SortTexts(clients)

projectsList == SortTexts(projects)

tasksList == SortTexts(tasks)

-----------------------------------------------------------------------------
(* Filter pipeline.                                                        *)

Abs(x) == IF x < 0 THEN 0 - x ELSE x

\* Math.round(q) of the quotient n / d, n >= 0, d > 0: floor(q + 1/2)
RoundDiv(n, d) == (2 * n + d) \div (2 * d)

\* differenceInDays(date1, date2); NaN when either Date is invalid
differenceInDays(date1, date2) ==
    IF date1.valid /\ date2.valid
    THEN [nan |-> FALSE, v |-> RoundDiv(Abs(date1.t - date2.t), oneDay)]
    ELSE [nan |-> TRUE, v |-> 0]

\* the table of presets in filteredData
ranges == [week |-> 7, month |-> 30, quarter |-> 90, year |-> 365]

DateRanges == {"all", "week", "month", "quarter", "year"}

\* the callback of the date-range filter; comparisons with NaN are false
InRange(row, nowDate, daysBack) ==
    LET daysDiff == differenceInDays(nowDate, row.Date)
    IN  ~daysDiff.nan /\ daysDiff.v <= daysBack /\ daysDiff.v >= 0

\* FilterStage with the client filter left out
FilterStageSkipsClient(data, emp, client, project, task, range, nowDate) ==
    LET f1 == IF emp # "all"
              THEN SelectSeq(data, LAMBDA row : row.FullName = emp) ELSE data
        f3 == IF project # "all"
              THEN SelectSeq(f1, LAMBDA row : row.Project = project) ELSE f1
        f4 == IF task # "all"
              THEN SelectSeq(f3, LAMBDA row : row.Task = task) ELSE f3
    IN  IF range # "all"
        THEN SelectSeq(f4, LAMBDA row : InRange(row, nowDate, ranges[range]))
        ELSE f4

\* the chain of filters of filteredData, before the sort
FilterStage(data, emp, client, project, task, range, nowDate) ==
    LET f1 == IF emp # "all"
              THEN SelectSeq(data, LAMBDA row : row.FullName = emp) ELSE data
        f2 == IF client # "all"
              THEN SelectSeq(f1, LAMBDA row : row.Client = client) ELSE f1
        f3 == IF project # "all"
              THEN SelectSeq(f2, LAMBDA row : row.Project = project) ELSE f2
        f4 == IF task # "all"
              THEN SelectSeq(f3, LAMBDA row : row.Task = task) ELSE f3
    IN  IF range # "all"
        THEN SelectSeq(f4, LAMBDA row : InRange(row, nowDate, ranges[range]))
        ELSE f4

\* filtered === processedData when no filter ran: the sort is then in place
Aliased(emp, client, project, task, range) ==
    emp = "all" /\ client = "all" /\ project = "all" /\ task = "all" /\ range = "all"

\* the comparator (a, b) => b - a on two Dates is a number unless one is invalid
Comparable(dates) == \A i \in 1..Len(dates) : dates[i].valid

\* every arrangement of the elements of s
Arrangements(s) ==
    LET n == Len(s)
        P == {p \in [1..n -> 1..n] : \A i, j \in 1..n : p[i] = p[j] => i = j}
    IN  {[i \in 1..n |-> s[p[i]]] : p \in P}

\* insert x = [k, v] after the elements of the descending sequence s whose
\* key is >= x.k
RECURSIVE InsertDesc(_, _)
InsertDesc(s, x) ==
    IF s = <<>> THEN <<x>>
    ELSE IF Head(s).k >= x.k
         THEN <<Head(s)>> \o InsertDesc(Tail(s), x)
         ELSE <<x>> \o s

\* Array.prototype.sort with (a, b) => b.k - a.k: stable, descending
RECURSIVE SortDesc(_)
SortDesc(s) ==
    IF s = <<>> THEN <<>>
    ELSE InsertDesc(SortDesc(SubSeq(s, 1, Len(s) - 1)), s[Len(s)])

\* s sorted by the numbers keys[i] of its elements, descending, stable
SortedDescBy(s, keys) ==
    LET keyed  == [i \in 1..Len(s) |-> [k |-> keys[i], v |-> s[i]]]
        sorted == SortDesc(keyed)
    IN  [i \in 1..Len(s) |-> sorted[i].v]

\* the arrays filtered.sort((a, b) => b['Date'] - a['Date']) can leave: the
\* stable descending order, or, when the comparator returns NaN for some
\* pair (an inconsistent comparator), an implementation-defined order
SortByDateDesc(s) ==
    IF Len(s) <= 1 THEN {s}
    ELSE IF Comparable([i \in 1..Len(s) |-> s[i].Date])
         THEN {SortedDescBy(s, [i \in 1..Len(s) |-> s[i].Date.t])}
         ELSE Arrangements(s)

-----------------------------------------------------------------------------
(* Date helpers of the component.                                          *)

\* WeekStartFrom without the Sunday case: Sunday starts the week after it
WeekStartSundayAhead(d, day) == setDate(d, getDate(d) - day + 1)

\* the last two statements of startOfWeek, day being d.getDay()
WeekStartFrom(d, day) ==
    setDate(d, getDate(d) - day + (IF day = 0 THEN 0 - 6 ELSE 1))

\* startOfWeek(date); every field of an Invalid Date is NaN, and so is the
\* result
startOfWeek(date) ==
    IF ~date.valid THEN InvalidDate ELSE WeekStartFrom(date, getDay(date))

\* the text of a format for the year, month (1..12) and day it spells
FormatParts(pattern, y, m, d) ==
    [kind |-> pattern, y |-> IF pattern = "MMM d" THEN 0 ELSE y, m |-> m, d |-> d]

\* the branch of formatDate taken for a format
PatternOf(format) ==
    IF format \in {"yyyy-MM-dd", "MMM d, yyyy", "MMM d"}
    THEN format ELSE "toDateString"

\* formatDate(date, format), as the text's parts: the pattern it follows and
\* the year, month and day it spells.  An Invalid Date spells NaN-NaN-NaN.
\* A format other than the three handled falls through to toDateString.
formatDate(date, format) ==
    IF ~date.valid
    THEN FormatParts(IF format = "yyyy-MM-dd" THEN "NaN-NaN-NaN" ELSE "invalid",
                     0, 0, 0)
    ELSE FormatParts(IF format = "yyyy-MM-dd" THEN "iso" ELSE PatternOf(format),
                     getFullYear(date), getMonth(date) + 1, getDate(date))

-----------------------------------------------------------------------------
(* Weekly utilization.  weekMap is a Map from week key to a Map from       *)
(* employee to stats; the model keeps each Map as a function and, for the  *)
(* outer one, the order its keys were inserted in.                         *)

NewStats == [hours |-> 0, billableHours |-> 0, internalHours |-> 0,
             externalHours |-> 0, days |-> {}]

\* AddRow counting every row as billable
AddRowAllBillable(stats, row) ==
    [hours |-> stats.hours + row.Hours,
     billableHours |-> stats.billableHours + row.Hours,
     internalHours |->
         IF row.IsInternal
         THEN stats.internalHours + row.Hours ELSE stats.internalHours,
     externalHours |->
         IF row.IsInternal
         THEN stats.externalHours ELSE stats.externalHours + row.Hours,
     days |-> stats.days \cup {formatDate(row.Date, "yyyy-MM-dd")}]

\* stats after one row is added to it
AddRow(stats, row) ==
    [hours |-> stats.hours + row.Hours,
     billableHours |->
         IF row.Billable = "Yes"
         THEN stats.billableHours + row.Hours ELSE stats.billableHours,
     internalHours |->
         IF row.IsInternal
         THEN stats.internalHours + row.Hours ELSE stats.internalHours,
     externalHours |->
         IF row.IsInternal
         THEN stats.externalHours ELSE stats.externalHours + row.Hours,
     days |-> stats.days \cup {formatDate(row.Date, "yyyy-MM-dd")}]

\* employeeMap after the row of an employee is added to it
PutEmployee(empMap, employee, row) ==
    (employee :> AddRow(IF employee \in DOMAIN empMap
                        THEN empMap[employee] ELSE NewStats, row)) @@ empMap

\* weekMap after a row is added under its week key
PutWeek(acc, weekKey, row) ==
    [order |-> IF weekKey \in DOMAIN acc.map
               THEN acc.order ELSE Append(acc.order, weekKey),
     map   |-> (weekKey :> PutEmployee(IF weekKey \in DOMAIN acc.map
                                       THEN acc.map[weekKey] ELSE <<>>,
                                       row.FullName, row)) @@ acc.map]

\* the body of filteredData.forEach in weeklyUtilization
WeekStep(acc, row) ==
    PutWeek(acc, formatDate(startOfWeek(row.Date), "yyyy-MM-dd"), row)

\* filteredData.forEach(row => ...), from an empty weekMap
RECURSIVE WeekFold(_)
WeekFold(data) ==
    IF data = <<>> THEN [order |-> <<>>, map |-> <<>>]
    ELSE WeekStep(WeekFold(SubSeq(data, 1, Len(data) - 1)), data[Len(data)])

\* the arrays Array.from(weekMap.entries()).sort(([a], [b]) => new Date(b) -
\* new Date(a)) can leave: newest week first, or an implementation-defined
\* order when a key is no date (NaN-NaN-NaN)
WeeklyOutcomes(data) ==
    LET wm      == WeekFold(data)
        entries == [i \in 1..Len(wm.order) |->
                       [week |-> wm.order[i], emps |-> wm.map[wm.order[i]]]]
    IN  IF Len(entries) <= 1 THEN {entries}
        ELSE IF Comparable([i \in 1..Len(entries) |-> NewDate(entries[i].week)])
             THEN {SortedDescBy(entries, [i \in 1..Len(entries) |->
                                               NewDate(entries[i].week).t])}
             ELSE Arrangements(entries)

\* x / y > n / d as JavaScript evaluates it on numbers (d > 0): x / 0 is
\* Infinity, -Infinity or NaN, and a comparison with NaN is false
RatioAbove(x, y, n, d) ==
    IF y = 0 THEN x > 0
    ELSE IF y > 0 THEN d * x > n * y
    ELSE d * x < n * y

\* ShoutoutTest with the ratio compared by >= in exact arithmetic
ShoutoutTestFromRatio(stats) ==
    /\ stats.hours > 0
    /\ 10 * stats.billableHours >= 9 * stats.hours
    /\ stats.hours >= 35

\* the test of the Recent Shoutouts list
ShoutoutTest(stats) ==
    RatioAbove(stats.billableHours, stats.hours, 9, 10) /\ stats.hours >= 35

\* the <Shoutout> elements of the overview tab: the (week, employee) pairs
\* of weeklyUtilization.slice(0, 3) that pass the test
RecentShoutouts ==
    LET recent == SubSeq(weeklyUtilization, 1,
                         IF Len(weeklyUtilization) < 3
                         THEN Len(weeklyUtilization) ELSE 3)
    IN  UNION {{<<recent[i].week, e>> :
                    e \in {x \in DOMAIN recent[i].emps :
                              ShoutoutTest(recent[i].emps[x])}} :
               i \in 1..Len(recent)}

\* UtilizationAlert with the low threshold inclusive
UtilizationAlertLowAt30(hours) ==
    LET isLow  == hours <= 30
        isHigh == hours > 45
    IN  IF ~isLow /\ ~isHigh THEN "null"
        ELSE IF isLow THEN "Low" ELSE "High"

\* the UtilizationAlert component: what it renders for the hours it is given
UtilizationAlert(hours) ==
    LET isLow  == hours < 30
        isHigh == hours > 45
    IN  IF ~isLow /\ ~isHigh THEN "null"
        ELSE IF isLow THEN "Low" ELSE "High"

\* the test around <UtilizationAlert> in the utilization tab
AlertTest(stats) == stats.hours < 30 \/ stats.hours > 45

\* what the utilization tab renders for each (week, employee) record: the
\* alert of UtilizationAlert when the test passes, nothing otherwise
AlertOf(stats) == IF AlertTest(stats) THEN UtilizationAlert(stats.hours) ELSE "null"

-----------------------------------------------------------------------------
(* Plain objects used as maps.  obj[key] reads an own property or, for a    *)
(* name Object.prototype defines, the inherited function: a truthy value    *)
(* that is not among the object's own keys.  The model keeps an object as   *)
(* the function from its own keys to their values.                          *)

\* the function-valued properties every plain object inherits
InheritedKeys == {"constructor", "toString", "toLocaleString", "valueOf",
                  "hasOwnProperty", "isPrototypeOf", "propertyIsEnumerable"}

\* !obj[key] is false: key is an own property (its values here are objects)
\* or names an inherited function
HasTruthy(obj, key) == key \in DOMAIN obj \/ key \in InheritedKeys

\* obj with obj[key] = value (an own property from then on)
PutOwn(obj, key, value) == (key :> value) @@ obj

\* row[column] || fallback for a text column
OrElse(text, fallback) == IF text = "" THEN fallback ELSE text

-----------------------------------------------------------------------------
(* Internal and external entries, and the internal project breakdown.       *)

internalData == SelectSeq(filteredData, LAMBDA row : row.IsInternal)

\* externalData without its filter
externalDataUnfiltered == filteredData

externalData == SelectSeq(filteredData, LAMBDA row : ~row.IsInternal)

NewLeaf == [hours |-> 0, billableHours |-> 0, entries |-> <<>>]

\* breakdown[client][project][task] after a row is added to it
AddToLeaf(leaf, row) ==
    [hours |-> leaf.hours + row.Hours,
     billableHours |->
         IF row.Billable = "Yes"
         THEN leaf.billableHours + row.Hours ELSE leaf.billableHours,
     entries |-> Append(leaf.entries, row)]

\* breakdown[client][project] after the row is added under task.  When
\* task names an inherited function, that function is taken for the leaf:
\* it has no entries array and entries.push throws a TypeError.
PutTask(tasksObj, task, row) ==
    IF task \notin DOMAIN tasksObj /\ task \in InheritedKeys
    THEN [threw |-> TRUE, obj |-> tasksObj]
    ELSE [threw |-> FALSE,
          obj |-> PutOwn(tasksObj, task,
                         AddToLeaf(IF task \in DOMAIN tasksObj
                                   THEN tasksObj[task] ELSE NewLeaf, row))]

\* breakdown[client] after the row is added under project and task.  When
\* project names an inherited function, breakdown[client][project] is that
\* function: the leaf becomes a property of the function, outside the
\* tree, unless task too names an inherited function (TypeError as above).
PutProject(projectsObj, project, task, row) ==
    IF project \notin DOMAIN projectsObj /\ project \in InheritedKeys
    THEN [threw |-> task \in InheritedKeys, obj |-> projectsObj]
    ELSE LET put == PutTask(IF project \in DOMAIN projectsObj
                            THEN projectsObj[project] ELSE <<>>, task, row)
         IN  [threw |-> put.threw,
              obj |-> PutOwn(projectsObj, project, put.obj)]

\* breakdown after the row is added under client, project and task (the
\* clients of internalData are those of INTERNAL_CLIENTS, none inherited)
PutClient(breakdown, client, project, task, row) ==
    LET put == PutProject(IF client \in DOMAIN breakdown
                          THEN breakdown[client] ELSE <<>>, project, task, row)
    IN  [threw |-> put.threw, obj |-> PutOwn(breakdown, client, put.obj)]

\* the body of internalData.forEach in internalBreakdown; nothing runs
\* after a throw
BreakdownStep(acc, row) ==
    IF acc.threw THEN acc
    ELSE PutClient(acc.obj, row.Client, OrElse(row.Project, "No Project"),
                   OrElse(row.Task, "No Task"), row)

\* internalData.forEach(row => ...), from an empty breakdown
RECURSIVE BreakdownFold(_)
BreakdownFold(data) ==
    IF data = <<>> THEN [threw |-> FALSE, obj |-> <<>>]
    ELSE BreakdownStep(BreakdownFold(SubSeq(data, 1, Len(data) - 1)),
                       data[Len(data)])

\* the useMemo of internalBreakdown: the breakdown, or a TypeError thrown
\* while the component renders
internalBreakdown == BreakdownFold(internalData)

\* the render throws: React unmounts the component and renders nothing
RenderThrows == internalBreakdown.threw

\* Object.values(tasks).reduce((sum, taskData) => sum + taskData.hours, 0)
RECURSIVE ProjectTotal(_)
ProjectTotal(tasksObj) ==
    IF DOMAIN tasksObj = {} THEN 0
    ELSE LET task == CHOOSE k \in DOMAIN tasksObj : TRUE
         IN  tasksObj[task].hours
                 + ProjectTotal([k \in DOMAIN tasksObj \ {task} |-> tasksObj[k]])

\* Object.values(projects).reduce((sum, projectData) => sum + ..., 0)
RECURSIVE ClientTotal(_)
ClientTotal(projectsObj) ==
    IF DOMAIN projectsObj = {} THEN 0
    ELSE LET project == CHOOSE k \in DOMAIN projectsObj : TRUE
         IN  ProjectTotal(projectsObj[project])
                 + ClientTotal([k \in DOMAIN projectsObj \ {project} |->
                                   projectsObj[k]])

-----------------------------------------------------------------------------
(* Statistics.  A number rendered by toFixed(1) is kept as the integer     *)
(* number of tenths it spells; the arithmetic before it is exact.          *)

\* (n / d).toFixed(1) for d > 0, in tenths: the nearest tenth, a tie going
\* away from zero
toFixed1(n, d) ==
    IF n >= 0 THEN RoundDiv(10 * n, d) ELSE 0 - RoundDiv(10 * (0 - n), d)

\* data.reduce((sum, row) => sum + row['Hours'], 0)
RECURSIVE ReduceHours(_)
ReduceHours(data) ==
    IF data = <<>> THEN 0
    ELSE ReduceHours(SubSeq(data, 1, Len(data) - 1)) + data[Len(data)].Hours

\* data.reduce((sum, row) => row['Billable?'] === 'Yes' ? sum + row['Hours']
\* : sum, 0)
RECURSIVE ReduceBillable(_)
ReduceBillable(data) ==
    IF data = <<>> THEN 0
    ELSE LET sum == ReduceBillable(SubSeq(data, 1, Len(data) - 1))
             row == data[Len(data)]
         IN  IF row.Billable = "Yes" THEN sum + row.Hours ELSE sum

\* new Set(filteredData.map(row => formatDate(row['Date'], 'yyyy-MM-dd')))
uniqueDays ==
    {formatDate(filteredData[i].Date, "yyyy-MM-dd") : i \in 1..Len(filteredData)}

\* the object stats returns, from the four sums and the number of days
statsOf(totalHours, billableHours, internalHours, externalHours, days) ==
    [totalHours      |-> toFixed1(totalHours, 1),
     billableHours   |-> toFixed1(billableHours, 1),
     internalHours   |-> toFixed1(internalHours, 1),
     externalHours   |-> toFixed1(externalHours, 1),
     utilizationRate |-> IF totalHours > 0
                         THEN toFixed1(100 * billableHours, totalHours) ELSE 0,
     internalRate    |-> IF totalHours > 0
                         THEN toFixed1(100 * internalHours, totalHours) ELSE 0,
     uniqueClients   |-> Cardinality(Values(filteredData, "Client")),
     uniqueProjects  |-> Cardinality(Values(filteredData, "Project")),
     avgHoursPerDay  |-> IF days > 0 THEN toFixed1(totalHours, days) ELSE 0]

\* the memoised value the component names stats (the name stats is that of
\* a weekly record's statistics in this module)
statsMemo ==
    statsOf(ReduceHours(filteredData), ReduceBillable(filteredData),
            ReduceHours(internalData), ReduceHours(externalData),
            Cardinality(uniqueDays))

-----------------------------------------------------------------------------
(* Monthly hours trend of the insights tab.  Its reduce builds a plain     *)
(* object keyed by formatDate(row['Date'], 'MMM yyyy'), kept here as the   *)
(* function from its keys and the order they were inserted in.             *)

\* acc[month] after a row is added to it
AddToMonth(data, row) ==
    [month    |-> data.month,
     internal |-> IF row.IsInternal THEN data.internal + row.Hours ELSE data.internal,
     external |-> IF row.IsInternal THEN data.external ELSE data.external + row.Hours,
     total    |-> data.total + row.Hours]

\* the callback of filteredData.reduce in the monthly trend
TrendStep(acc, row) ==
    LET month == formatDate(row.Date, "MMM yyyy")
        fresh == [month |-> month, internal |-> 0, external |-> 0, total |-> 0]
    IN  [order |-> IF month \in DOMAIN acc.map
                   THEN acc.order ELSE Append(acc.order, month),
         map   |-> PutOwn(acc.map, month,
                          AddToMonth(IF month \in DOMAIN acc.map
                                     THEN acc.map[month] ELSE fresh, row))]

\* filteredData.reduce((acc, row) => ..., {})
RECURSIVE TrendFold(_)
TrendFold(data) ==
    IF data = <<>> THEN [order |-> <<>>, map |-> <<>>]
    ELSE TrendStep(TrendFold(SubSeq(data, 1, Len(data) - 1)), data[Len(data)])

\* new Date(text) for a text formatDate made: the output of toDateString
\* names a day, read as its midnight in local time; 'Invalid Date' and the
\* other texts name no date
ParseFormatted(text) ==
    IF text.kind = "toDateString"
    THEN DateAt(DaysFromCivil(text.y, text.m, text.d) * oneDay - tz)
    ELSE InvalidDate

\* the arrays the chart can be given: the records sorted by new Date(a.month)
\* - new Date(b.month), ascending, or an implementation-defined order when
\* a key is no date
monthlyTrend ==
    LET acc     == TrendFold(filteredData)
        records == [i \in 1..Len(acc.order) |-> acc.map[acc.order[i]]]
        dates   == [i \in 1..Len(records) |-> ParseFormatted(records[i].month)]
    IN  IF Len(records) <= 1 THEN {records}
        ELSE IF Comparable(dates)
             THEN {SortedDescBy(records, [i \in 1..Len(records) |-> 0 - dates[i].t])}
             ELSE Arrangements(records)

-----------------------------------------------------------------------------
(* Task word cloud.  A value of taskCounts is a number or, once + has met   *)
(* a function, a string: [isNumber, n], n being the number.                 *)

NumberValue(n) == [isNumber |-> TRUE, n |-> n]

\* a string that spells no number
StringValue == [isNumber |-> FALSE, n |-> 0]

\* (taskCounts[task] || 0) + hours: an own number adds up, an own string
\* and an inherited function are truthy and + concatenates, undefined
\* counts 0
PlusHours(taskCounts, task, hours) ==
    IF task \in DOMAIN taskCounts
    THEN IF taskCounts[task].isNumber
         THEN NumberValue(taskCounts[task].n + hours) ELSE StringValue
    ELSE IF task \in InheritedKeys THEN StringValue ELSE NumberValue(hours)

\* the body of filteredData.forEach in taskWordCloud
CloudStep(acc, row) ==
    IF row.Task = "" THEN acc
    ELSE [order |-> IF row.Task \in DOMAIN acc.map
                    THEN acc.order ELSE Append(acc.order, row.Task),
          map   |-> PutOwn(acc.map, row.Task,
                           PlusHours(acc.map, row.Task, row.Hours))]

\* filteredData.forEach(row => ...), from an empty taskCounts
RECURSIVE CloudFold(_)
CloudFold(data) ==
    IF data = <<>> THEN [order |-> <<>>, map |-> <<>>]
    ELSE CloudStep(CloudFold(SubSeq(data, 1, Len(data) - 1)), data[Len(data)])

\* .slice(0, 20): the number of records kept
TopTasks == 20

\* s.slice(0, n)
SliceTo(s, n) == SubSeq(s, 1, IF Len(s) < n THEN Len(s) ELSE n)

\* Math.min(Math.max(hours / 10, 12), 48) in tenths, NaN when hours is a
\* string that spells no number
SizeOf(value) ==
    IF ~value.isNumber THEN [nan |-> TRUE, tenths |-> 0]
    ELSE [nan |-> FALSE,
          tenths |-> IF value.n <= 120 THEN 120
                     ELSE IF value.n >= 480 THEN 480 ELSE value.n]

\* the records of one sorted array of taskCounts entries
CloudRecords(entries) ==
    [i \in 1..Len(SliceTo(entries, TopTasks)) |->
        [text |-> entries[i].text, value |-> entries[i].value,
         size |-> SizeOf(entries[i].value)]]

\* the arrays taskWordCloud can be: the entries sorted by (a, b) => b - a,
\* or in an implementation-defined order when a value is no number (the
\* comparator returns NaN)
taskWordCloud ==
    LET acc     == CloudFold(filteredData)
        entries == [i \in 1..Len(acc.order) |->
                       [text |-> acc.order[i], value |-> acc.map[acc.order[i]]]]
    IN  IF Len(entries) <= 1 THEN {CloudRecords(entries)}
        ELSE IF \A i \in 1..Len(entries) : entries[i].value.isNumber
             THEN {CloudRecords(SortedDescBy(entries,
                                             [i \in 1..Len(entries) |->
                                                 entries[i].value.n]))}
             ELSE {CloudRecords(e) : e \in Arrangements(entries)}

-----------------------------------------------------------------------------
(* One render after a state change: the memoised values that depend on the *)
(* changed state are recomputed.  filteredData's sort is in place, so it   *)
(* also rearranges processedData when no filter has copied the array.      *)

Render(data, emp, client, project, task, range) ==
    LET stage == FilterStage(data, emp, client, project, task, range, DateAt(now))
    IN  UNION {{[pd |-> IF Aliased(emp, client, project, task, range)
                        THEN sorted ELSE data,
                 fd |-> sorted,
                 wu |-> weekly] : weekly \in WeeklyOutcomes(sorted)} :
               sorted \in SortByDateDesc(stage)}

Rerender(data, emp, client, project, task, range) ==
    \E r \in Render(data, emp, client, project, task, range) :
        /\ processedData' = r.pd
        /\ filteredData' = r.fd
        /\ weeklyUtilization' = r.wu

\* the option a <select value={sel}> shows: sel when it is offered, the
\* first option ('all') otherwise; onChange fires on a different choice
Shown(sel, options) == IF sel \in options THEN sel ELSE "all"

\* the filter controls are rendered when !loading && csvData.length > 0,
\* and nothing is rendered once a render has thrown
FiltersRendered == ~loading /\ Len(csvData) > 0 /\ ~RenderThrows

\* a file input is rendered in the header while csvData is empty, and in
\* the page body whenever !loading; nothing is rendered once a render has
\* thrown
UploadRendered == (Len(csvData) = 0 \/ ~loading) /\ ~RenderThrows

RemoveAt(s, i) == SubSeq(s, 1, i - 1) \o SubSeq(s, i + 1, Len(s))

-----------------------------------------------------------------------------
(* Event handlers.                                                         *)

\* handleFileUpload with a file chosen: Papa.parse starts on its rows
handleFileUpload(file) ==
    /\ UploadRendered
    /\ Len(parsing) < MaxParsing
    /\ loading' = TRUE
    /\ parsing' = Append(parsing, file)
    /\ UNCHANGED <<csvData, selections, processedData, filteredData,
                   weeklyUtilization, now, tz>>

\* the complete callback of the i-th parse in flight
ParseComplete(i) ==
    /\ i \in 1..Len(parsing)
    /\ csvData' = DropUndated(parsing[i])
    /\ loading' = FALSE
    /\ parsing' = RemoveAt(parsing, i)
    /\ Rerender(MapRows(csvData'), selectedEmployee, selectedClient,
                selectedProject, selectedTask, selectedDateRange)
    /\ UNCHANGED <<selections, now, tz>>

\* the error callback of the i-th parse in flight
ParseError(i) ==
    /\ i \in 1..Len(parsing)
    /\ loading' = FALSE
    /\ parsing' = RemoveAt(parsing, i)
    /\ UNCHANGED <<csvData, selections, processedData, filteredData,
                   weeklyUtilization, now, tz>>

\* onChange of the Employee select
SelectEmployee(v) ==
    /\ FiltersRendered
    /\ v \in {"all"} \cup employees
    /\ v # Shown(selectedEmployee, {"all"} \cup employees)
    /\ selectedEmployee' = v
    /\ Rerender(processedData, v, selectedClient, selectedProject,
                selectedTask, selectedDateRange)
    /\ UNCHANGED <<csvData, loading, selectedClient, selectedProject,
                   selectedTask, selectedDateRange, parsing, now, tz>>

\* SelectClient without setSelectedTask('all')
SelectClientKeepsTask(v) ==
    /\ FiltersRendered
    /\ v \in {"all"} \cup clients
    /\ v # Shown(selectedClient, {"all"} \cup clients)
    /\ selectedClient' = v
    /\ selectedProject' = "all"
    /\ Rerender(processedData, selectedEmployee, v, "all", selectedTask,
                selectedDateRange)
    /\ UNCHANGED <<csvData, loading, selectedEmployee, selectedTask,
                   selectedDateRange, parsing, now, tz>>

\* SelectClient without setSelectedProject('all')
SelectClientKeepsProject(v) ==
    /\ FiltersRendered
    /\ v \in {"all"} \cup clients
    /\ v # Shown(selectedClient, {"all"} \cup clients)
    /\ selectedClient' = v
    /\ selectedTask' = "all"
    /\ Rerender(processedData, selectedEmployee, v, selectedProject, "all",
                selectedDateRange)
    /\ UNCHANGED <<csvData, loading, selectedEmployee, selectedProject,
                   selectedDateRange, parsing, now, tz>>

\* onChange of the Client select
SelectClient(v) ==
    /\ FiltersRendered
    /\ v \in {"all"} \cup clients
    /\ v # Shown(selectedClient, {"all"} \cup clients)
    /\ selectedClient' = v
    /\ selectedProject' = "all"
    /\ selectedTask' = "all"
    /\ Rerender(processedData, selectedEmployee, v, "all", "all",
                selectedDateRange)
    /\ UNCHANGED <<csvData, loading, selectedEmployee, selectedDateRange,
                   parsing, now, tz>>

\* onChange of the Project select, rendered when selectedClient !== 'all'
SelectProject(v) ==
    /\ FiltersRendered
    /\ selectedClient # "all"
    /\ v \in {"all"} \cup projects
    /\ v # Shown(selectedProject, {"all"} \cup projects)
    /\ selectedProject' = v
    /\ selectedTask' = "all"
    /\ Rerender(processedData, selectedEmployee, selectedClient, v, "all",
                selectedDateRange)
    /\ UNCHANGED <<csvData, loading, selectedEmployee, selectedClient,
                   selectedDateRange, parsing, now, tz>>

\* onChange of the Task select, rendered when selectedProject !== 'all'
SelectTask(v) ==
    /\ FiltersRendered
    /\ selectedProject # "all"
    /\ v \in {"all"} \cup tasks
    /\ v # Shown(selectedTask, {"all"} \cup tasks)
    /\ selectedTask' = v
    /\ Rerender(processedData, selectedEmployee, selectedClient,
                selectedProject, v, selectedDateRange)
    /\ UNCHANGED <<csvData, loading, selectedEmployee, selectedClient,
                   selectedProject, selectedDateRange, parsing, now, tz>>

\* onChange of the Date Range select
SelectDateRange(v) ==
    /\ FiltersRendered
    /\ v \in DateRanges
    /\ v # selectedDateRange
    /\ selectedDateRange' = v
    /\ Rerender(processedData, selectedEmployee, selectedClient,
                selectedProject, selectedTask, v)
    /\ UNCHANGED <<csvData, loading, selectedEmployee, selectedClient,
                   selectedProject, selectedTask, parsing, now, tz>>

-----------------------------------------------------------------------------
(* The environment: the clock and the files a user uploads.                *)

\* the instant the session starts: 2024-01-15T00:00Z, a Monday
Now0 == DaysFromCivil(2024, 1, 15) * oneDay

\* the clock advances by a quarter of a day
TickHours == oneDay \div 4

Tick ==
    /\ now < Now0 + MaxTicks * TickHours
    /\ now' = now + TickHours
    /\ UNCHANGED <<csvData, loading, selections, processedData, filteredData,
                   weeklyUtilization, parsing, tz>>

\* offsets from UTC: one west of Greenwich, one east
TimeZones == {0 - 5, 1}

\* the sequences over S of length at most n
SeqsUpTo(S, n) == UNION {[1..k -> S] : k \in 0..n}

\* Rows for the filter pipeline: dated 7 and 8 days before Now0, 3 days
\* after it and 30 days before it; with a text in the Date column that is
\* no date; with an empty Date cell; and with no Date cell
FilterRowList ==
    <<RawRow(IsoCell(2024, 1, 8), "Ann", "Lee", "Acme", "Web", "Dev", HoursNum(8), "Yes"),
      RawRow(IsoCell(2024, 1, 7), "Bob", "Ray", "Acme", "Web", "QA", HoursNum(8), "No"),
      RawRow(IsoCell(2024, 1, 18), "Ann", "Lee", "Globex", "Web", "Dev", HoursNum(8), "Yes"),
      RawRow(IsoCell(2023, 12, 16), "Ann", "Lee", "Onica", "Ops", "", HoursNum(8), "No"),
      RawRow(IsoCell(2024, 13, 1), "Bob", "Ray", "Onica", "", "", HoursNum(8), "No"),
      RawRow(EmptyCell, "Bob", "Ray", "Acme", "Web", "Dev", HoursNum(8), "Yes"),
      RawRow(UndefinedCell, "", "", "", "", "", HoursText, "")>>

FilterRows == {FilterRowList[i] : i \in DOMAIN FilterRowList}

FilterFiles == SeqsUpTo(FilterRows, MaxRows)

\* Rows for the weekly aggregation: between the two time zones every
\* weekday, four calendar weeks, a week that starts in the month before,
\* and hours on and around the thresholds (30, 45, 33 of 36, 45 of 50, none)
WeekRowList ==
    <<RawRow(IsoCell(2024, 1, 2), "Ann", "Lee", "Acme", "Web", "Dev", HoursNum(30), "Yes"),
      RawRow(IsoCell(2024, 1, 3), "Ann", "Lee", "Acme", "Web", "QA", HoursNum(3), "Yes"),
      RawRow(IsoCell(2024, 1, 8), "Ann", "Lee", "Onica", "", "", HoursNum(3), "No"),
      RawRow(IsoCell(2023, 12, 31), "Bob", "Ray", "Acme", "Web", "Dev", HoursNum(45), "Yes"),
      RawRow(IsoCell(2023, 12, 29), "Bob", "Ray", "Acme", "Web", "QA", HoursNum(5), "No"),
      RawRow(IsoCell(2024, 2, 1), "Ann", "Lee", "Acme", "Web", "Dev", HoursText, "Yes")>>

WeekRows == {WeekRowList[i] : i \in DOMAIN WeekRowList}

WeekFiles == SeqsUpTo(WeekRows, MaxWeekRows)

\* Rows for the breakdowns and the statistics: two entries of one internal
\* leaf on two days of a month; an internal entry with no project and no
\* task; an external entry in another month; a project and a task named
\* like a property every object inherits, under an internal and an external
\* client; negative hours; and an internal entry whose task is so named
InsightRowList ==
    <<RawRow(IsoCell(2024, 1, 8), "Ann", "Lee", "Onica", "Ops", "Plan", HoursNum(8), "No"),
      RawRow(IsoCell(2024, 1, 9), "Bob", "Ray", "Onica", "Ops", "Plan", HoursNum(4), "Yes"),
      RawRow(IsoCell(2024, 1, 8), "Ann", "Lee", "Onica", "", "", HoursNum(2), "No"),
      RawRow(IsoCell(2024, 2, 1), "Ann", "Lee", "Acme", "Web", "Dev", HoursNum(16), "Yes"),
      RawRow(IsoCell(2024, 1, 9), "Bob", "Ray", "Rackspace Innovation In Action",
             "constructor", "Plan", HoursNum(8), "No"),
      RawRow(IsoCell(2024, 1, 10), "Bob", "Ray", "Acme", "Web", "constructor",
             HoursNum(8), "Yes"),
      RawRow(IsoCell(2024, 1, 10), "Ann", "Lee", "Acme", "Web", "Dev",
             HoursNum(0 - 3), "Yes"),
      RawRow(IsoCell(2024, 1, 11), "Ann", "Lee", "Onica", "Ops", "constructor",
             HoursNum(1), "No")>>

InsightRows == {InsightRowList[i] : i \in DOMAIN InsightRowList}

InsightFiles == SeqsUpTo(InsightRows, MaxInsightRows)

\* Files for two uploads that overlap: the file chosen first holds entries
\* of Acme, the file chosen while it is parsed entries of other clients, so
\* the rows loaded tell which upload they came from
FirstFiles ==
    SeqsUpTo({FilterRowList[1], FilterRowList[2]}, MaxRows) \ {<<>>}

LaterFiles ==
    SeqsUpTo({FilterRowList[3], FilterRowList[4]}, MaxRows) \ {<<>>}

\* Files for the sessions with several uploads
SampleFiles ==
    {<<FilterRowList[1], FilterRowList[2], FilterRowList[6]>>,
     <<FilterRowList[5], FilterRowList[3], FilterRowList[7]>>,
     <<FilterRowList[4], FilterRowList[3]>>,
     <<FilterRowList[7]>>}

-----------------------------------------------------------------------------
(* Specifications.                                                         *)

Init ==
    /\ csvData = <<>>
    /\ loading = FALSE
    /\ selectedEmployee = "all"
    /\ selectedClient = "all"
    /\ selectedProject = "all"
    /\ selectedTask = "all"
    /\ selectedDateRange = "all"
    /\ processedData = <<>>
    /\ filteredData = <<>>
    /\ weeklyUtilization = <<>>
    /\ parsing = <<>>
    /\ now = Now0
    /\ tz \in TimeZones

\* the first upload of a session: nothing loaded, nothing being parsed
FirstUpload(file) ==
    /\ csvData = <<>>
    /\ parsing = <<>>
    /\ handleFileUpload(file)

\* the App, with files uploaded over and again
Next ==
    \/ \E f \in SampleFiles : handleFileUpload(f)
    \/ \E i \in 1..MaxParsing : ParseComplete(i)
    \/ \E i \in 1..MaxParsing : ParseError(i)
    \/ \E v \in {"all"} \cup employees : SelectEmployee(v)
    \/ \E v \in {"all"} \cup clients : SelectClient(v)
    \/ \E v \in {"all"} \cup projects : SelectProject(v)
    \/ \E v \in {"all"} \cup tasks : SelectTask(v)
    \/ \E v \in DateRanges : SelectDateRange(v)

Spec == Init /\ [][Next]_vars

\* one upload of any file of FilterFiles, then the filters, as time passes
NextFilter ==
    \/ \E f \in FilterFiles : FirstUpload(f)
    \/ ParseComplete(1)
    \/ ParseError(1)
    \/ \E v \in {"all"} \cup employees : SelectEmployee(v)
    \/ \E v \in {"all"} \cup clients : SelectClient(v)
    \/ \E v \in {"all"} \cup projects : SelectProject(v)
    \/ \E v \in {"all"} \cup tasks : SelectTask(v)
    \/ \E v \in DateRanges : SelectDateRange(v)
    \/ Tick

\* the filters read no local calendar field: one time zone serves
InitFilter == Init /\ tz = 1

SpecFilter == InitFilter /\ [][NextFilter]_vars

\* one upload of any file of WeekFiles, then one employee's view or all
NextWeekly ==
    \/ \E f \in WeekFiles : FirstUpload(f)
    \/ ParseComplete(1)
    \/ \E v \in {"all"} \cup employees : SelectEmployee(v)

SpecWeekly == Init /\ [][NextWeekly]_vars

\* one upload of any file of InsightFiles, then an employee's or a client's
\* view
NextInsights ==
    \/ \E f \in InsightFiles : FirstUpload(f)
    \/ ParseComplete(1)
    \/ \E v \in {"all"} \cup employees : SelectEmployee(v)
    \/ \E v \in {"all"} \cup clients : SelectClient(v)

SpecInsights == Init /\ [][NextInsights]_vars

\* an upload started from the header's input while the first file is still
\* being parsed and nothing is loaded
SecondUpload(file) ==
    /\ csvData = <<>>
    /\ Len(parsing) = 1
    /\ handleFileUpload(file)

\* two overlapping uploads, their parses completing in either order
NextOverlap ==
    \/ \E f \in FirstFiles : FirstUpload(f)
    \/ \E f \in LaterFiles : SecondUpload(f)
    \/ ParseComplete(1)
    \/ ParseComplete(2)

SpecOverlap == Init /\ [][NextOverlap]_vars

-----------------------------------------------------------------------------
(* Properties.                                                             *)

RECURSIVE SumSeq(_)
SumSeq(s) == IF s = <<>> THEN 0 ELSE Head(s) + SumSeq(Tail(s))

\* the elements of a sequence, each with the number of times it occurs
BagOf(s) ==
    [x \in {s[i] : i \in 1..Len(s)} |-> Cardinality({i \in 1..Len(s) : s[i] = x})]

\* C1.  Filter cascade: every step that changes selectedClient leaves
\* selectedProject and selectedTask at 'all' in the same step, and every
\* step that changes selectedProject leaves selectedTask at 'all'; so
\* resetting the client after a client, a project and a task were chosen
\* shows no state pairing the new client with the old project or task.
C1_FilterCascade ==
    [][/\ selectedClient' # selectedClient
           => selectedProject' = "all" /\ selectedTask' = "all"
       /\ selectedProject' # selectedProject => selectedTask' = "all"]_vars

\* a client, a project and a task are chosen: the state the reset starts from
C1_Witness ==
    selectedClient # "all" /\ selectedProject # "all" /\ selectedTask # "all"

\* C2.  Rejection invariant: every entry of processedData, and so of
\* filteredData, has a valid calendar date; rows whose Date is missing,
\* empty or a text that is no date leave no entry.
C2_EveryEntryDated ==
    /\ \A i \in 1..Len(processedData) : processedData[i].Date.valid
    /\ \A i \in 1..Len(filteredData) : filteredData[i].Date.valid

\* the four equality criteria, 'all' matching every row
MatchesEmployee(row) == selectedEmployee = "all" \/ row.FullName = selectedEmployee
MatchesClient(row)   == selectedClient = "all" \/ row.Client = selectedClient
MatchesProject(row)  == selectedProject = "all" \/ row.Project = selectedProject
MatchesTask(row)     == selectedTask = "all" \/ row.Task = selectedTask

MatchesAll(row) ==
    MatchesEmployee(row) /\ MatchesClient(row) /\ MatchesProject(row) /\ MatchesTask(row)

MatchesNth(n, row) ==
    CASE n = 1 -> MatchesEmployee(row)
      [] n = 2 -> MatchesClient(row)
      [] n = 3 -> MatchesProject(row)
      [] OTHER -> MatchesTask(row)

\* the rows of data that pass the criteria, applied one after another in
\* the order given
RECURSIVE FilterInOrder(_, _)
FilterInOrder(data, order) ==
    IF order = <<>> THEN data
    ELSE FilterInOrder(SelectSeq(data, LAMBDA row : MatchesNth(Head(order), row)),
                       Tail(order))

\* C3.  Filter exactness: with date range 'all', filteredData holds, as a
\* multiset, exactly the entries of processedData that satisfy every
\* criterion that is not 'all'; applying the four criteria in any other
\* order gives the same rows; with every criterion 'all' it is a
\* rearrangement of processedData.
C3_FilterExact ==
    selectedDateRange = "all" =>
        /\ BagOf(filteredData) = BagOf(SelectSeq(processedData, MatchesAll))
        /\ \A order \in Arrangements(<<1, 2, 3, 4>>) :
               BagOf(FilterInOrder(processedData, order)) = BagOf(filteredData)
        /\ Aliased(selectedEmployee, selectedClient, selectedProject,
                   selectedTask, selectedDateRange)
               => BagOf(filteredData) = BagOf(processedData)

\* two criteria are set and they keep some rows and drop others
C3_Witness ==
    /\ selectedDateRange = "all"
    /\ selectedEmployee # "all"
    /\ selectedClient # "all"
    /\ Len(filteredData) > 0
    /\ Len(filteredData) < Len(processedData)

\* a step in which filteredData is computed anew
RenderStep == selections' # selections \/ csvData' # csvData

\* MatchesAll(row) in the state a step leads to
MatchesAllNext(row) ==
    /\ selectedEmployee' = "all" \/ row.FullName = selectedEmployee'
    /\ selectedClient' = "all" \/ row.Client = selectedClient'
    /\ selectedProject' = "all" \/ row.Project = selectedProject'
    /\ selectedTask' = "all" \/ row.Task = selectedTask'

\* the number of calendar days from the day of a Date to today
DaysBeforeToday(date) == LocalDay(DateAt(now)) - LocalDay(date)

\* C4.  Date-range preset boundary: whenever filteredData is computed with
\* the preset 'week', at any moment of the day, an entry that passes the
\* other criteria and is dated 7 days before today is kept, and one dated
\* 8 days before today is dropped.
C4_SevenDaysKept ==
    [][RenderStep /\ selectedDateRange' = "week" =>
           \A i \in 1..Len(processedData') :
               LET row == processedData'[i]
                   kept == \E j \in 1..Len(filteredData') : filteredData'[j] = row
               IN  row.Date.valid /\ MatchesAllNext(row) =>
                       /\ DaysBeforeToday(row.Date) = 7 => kept
                       /\ DaysBeforeToday(row.Date) = 8 => ~kept]_vars

\* b - a >= 0 for the Dates a and b: false when either is invalid
DateAtLeast(b, a) == a.valid /\ b.valid /\ b.t >= a.t

\* C5.  Filter output order: filteredData is sorted by date descending:
\* of two adjacent entries the first has a date greater than or equal to
\* the second's.
C5_SortedByDateDesc ==
    \A i \in 1..(Len(filteredData) - 1) :
        DateAtLeast(filteredData[i].Date, filteredData[i + 1].Date)

\* C6.  Week-start computation: for every entry date, startOfWeek returns
\* the Monday of the date's calendar week: a date on weekday w (Monday = 1
\* .. Saturday = 6) maps to the date w - 1 days earlier and a Sunday to the
\* Monday six days earlier, at the same time of day; the result is a Monday
\* and lies between 0 and 6 days before the date.
C6_WeekStartIsMonday ==
    \A i \in 1..Len(processedData) :
        LET date   == processedData[i].Date
            w      == getDay(date)
            monday == startOfWeek(date)
            back   == IF w = 0 THEN 6 ELSE w - 1
        IN  date.valid =>
                /\ monday.valid
                /\ getDay(monday) = 1
                /\ LocalDay(date) - LocalDay(monday) = back
                /\ date.t - monday.t = back * oneDay
                /\ back \in 0..6

\* a Sunday entry and a Wednesday entry are loaded
C6_Witness ==
    /\ \E i \in 1..Len(processedData) :
           processedData[i].Date.valid /\ getDay(processedData[i].Date) = 0
    /\ \E i \in 1..Len(processedData) :
           processedData[i].Date.valid /\ getDay(processedData[i].Date) = 3

\* the week key an entry is counted under
WeekKeyOf(row) == formatDate(startOfWeek(row.Date), "yyyy-MM-dd")

\* the hours of the entries of filteredData at the indices idx, added up
HoursAt(idx) ==
    SumSeq([i \in 1..Len(filteredData) |->
               IF i \in idx THEN filteredData[i].Hours ELSE 0])

\* the (week, employee) pairs that have a record in weeklyUtilization
WeeklyRecords ==
    UNION {{<<weeklyUtilization[k].week, e>> :
                e \in DOMAIN weeklyUtilization[k].emps} :
           k \in 1..Len(weeklyUtilization)}

\* C7.  Weekly accumulation: the (week start, employee) pairs with a record
\* are those with at least one entry in filteredData, each week has one
\* element, and a record's hours is the sum of the hours of the employee's
\* entries in the week, billableHours the sum over those with Billable? =
\* 'Yes', internalHours the sum over the internal ones, externalHours the
\* sum over the others, and days the set of the dates of those entries.
C7_WeeklyAccumulation ==
    /\ WeeklyRecords = {<<WeekKeyOf(filteredData[i]), filteredData[i].FullName>> :
                            i \in 1..Len(filteredData)}
    /\ \A j, k \in 1..Len(weeklyUtilization) :
           j # k => weeklyUtilization[j].week # weeklyUtilization[k].week
    /\ \A k \in 1..Len(weeklyUtilization) :
           \A e \in DOMAIN weeklyUtilization[k].emps :
               LET stats == weeklyUtilization[k].emps[e]
                   mine  == {i \in 1..Len(filteredData) :
                                /\ WeekKeyOf(filteredData[i]) = weeklyUtilization[k].week
                                /\ filteredData[i].FullName = e}
               IN  /\ stats.hours = HoursAt(mine)
                   /\ stats.billableHours =
                          HoursAt({i \in mine : filteredData[i].Billable = "Yes"})
                   /\ stats.internalHours =
                          HoursAt({i \in mine : filteredData[i].IsInternal})
                   /\ stats.externalHours =
                          HoursAt({i \in mine : ~filteredData[i].IsInternal})
                   /\ stats.days =
                          {formatDate(filteredData[i].Date, "yyyy-MM-dd") : i \in mine}

\* one employee's week of three entries on three days: 36 hours, 33 of them
\* billable and external, 3 internal
C7_Witness ==
    \E k \in 1..Len(weeklyUtilization) :
        \E e \in DOMAIN weeklyUtilization[k].emps :
            LET stats == weeklyUtilization[k].emps[e]
            IN  /\ stats.hours = 36
                /\ stats.billableHours = 33
                /\ stats.internalHours = 3
                /\ stats.externalHours = 33
                /\ Cardinality(stats.days) = 3

\* the statistics of every weekly record
AllStats ==
    UNION {{weeklyUtilization[k].emps[e] : e \in DOMAIN weeklyUtilization[k].emps} :
           k \in 1..Len(weeklyUtilization)}

\* C8.  Alert classification: a weekly record is a low-utilization alert
\* iff its hours are below 30 and a high-utilization alert iff they are
\* above 45; no record is both; a record of exactly 30 or exactly 45 hours
\* raises no alert; an alert is rendered for a record iff it is low or high.
C8_AlertClassification ==
    \A stats \in AllStats :
        LET low  == UtilizationAlert(stats.hours) = "Low"
            high == UtilizationAlert(stats.hours) = "High"
        IN  /\ low <=> stats.hours < 30
            /\ high <=> stats.hours > 45
            /\ ~(low /\ high)
            /\ stats.hours \in {30, 45} => AlertOf(stats) = "null"
            /\ AlertOf(stats) # "null" <=> low \/ high
            /\ AlertOf(stats) = UtilizationAlert(stats.hours)

\* a record of exactly 30 hours and one of exactly 45 hours
C8_Witness ==
    /\ \E stats \in AllStats : stats.hours = 30
    /\ \E stats \in AllStats : stats.hours = 45

\* more than 90% of the hours billable and at least 35 hours, in exact
\* arithmetic
Qualifies(stats) ==
    /\ stats.hours > 0
    /\ 10 * stats.billableHours > 9 * stats.hours
    /\ stats.hours >= 35

\* C9, as stated.  Recognition classification: for every weekly record, a
\* shoutout is produced iff billableHours / hours > 0.90 and hours >= 35.
C9_ShoutoutForEveryRecord ==
    \A k \in 1..Len(weeklyUtilization) :
        \A e \in DOMAIN weeklyUtilization[k].emps :
            <<weeklyUtilization[k].week, e>> \in RecentShoutouts
                <=> Qualifies(weeklyUtilization[k].emps[e])

\* C9, amended.  Recognition classification: for every weekly record, a
\* shoutout is produced iff the record's week is among the first three of
\* weeklyUtilization (the three most recent weeks), billableHours / hours >
\* 0.90 and hours >= 35; a record with hours = 0 never produces a shoutout,
\* and a record with ratio exactly 0.90 does not.
C9_ShoutoutForRecentRecord ==
    \A k \in 1..Len(weeklyUtilization) :
        \A e \in DOMAIN weeklyUtilization[k].emps :
            LET stats == weeklyUtilization[k].emps[e]
                shown == <<weeklyUtilization[k].week, e>> \in RecentShoutouts
            IN  /\ shown <=> k <= 3 /\ Qualifies(stats)
                /\ stats.hours = 0 => ~shown
                /\ 10 * stats.billableHours = 9 * stats.hours => ~shown

\* a fourth week holds a record that qualifies and no shoutout is produced
\* for it
C9_Witness ==
    /\ Len(weeklyUtilization) >= 4
    /\ \E e \in DOMAIN weeklyUtilization[4].emps :
           /\ Qualifies(weeklyUtilization[4].emps[e])
           /\ <<weeklyUtilization[4].week, e>> \notin RecentShoutouts

\* C10.  README recognition rule: every weekly record for which a shoutout
\* is shown has at least 35 billable hours and at least 90% utilization
\* (billableHours / hours).
C10_ShoutoutHas35Billable ==
    \A k \in 1..Len(weeklyUtilization) :
        \A e \in DOMAIN weeklyUtilization[k].emps :
            LET stats == weeklyUtilization[k].emps[e]
            IN  <<weeklyUtilization[k].week, e>> \in RecentShoutouts =>
                    /\ stats.billableHours >= 35
                    /\ 10 * stats.billableHours >= 9 * stats.hours

\* the hours of the entries of a sequence, added up
HoursOf(data) == SumSeq([i \in 1..Len(data) |-> data[i].Hours])

\* the leaf an entry belongs to: client, project or 'No Project', task or
\* 'No Task'
LeafOf(row) == <<row.Client, OrElse(row.Project, "No Project"),
                 OrElse(row.Task, "No Task")>>

\* the internal entries of filteredData
InternalEntries == SelectSeq(filteredData, LAMBDA row : row.IsInternal)

\* the sum of the client totals the internal tab renders
RECURSIVE TreeTotal(_)
TreeTotal(breakdown) ==
    IF DOMAIN breakdown = {} THEN 0
    ELSE LET client == CHOOSE k \in DOMAIN breakdown : TRUE
         IN  ClientTotal(breakdown[client])
                 + TreeTotal([k \in DOMAIN breakdown \ {client} |-> breakdown[k]])

\* C11.  Rollup completeness: the breakdown is built, the leaf hours
\* summed over the tree's own keys equal the hours of the internal entries
\* of filteredData, each client total equals the hours of the internal
\* entries of that client, and each project total the hours of the
\* internal entries of that client and project.
C11_RollupComplete ==
    /\ ~RenderThrows
    /\ TreeTotal(internalBreakdown.obj) = HoursOf(InternalEntries)
    /\ \A client \in DOMAIN internalBreakdown.obj :
           /\ ClientTotal(internalBreakdown.obj[client]) =
                  HoursOf(SelectSeq(InternalEntries,
                                    LAMBDA row : LeafOf(row)[1] = client))
           /\ \A project \in DOMAIN internalBreakdown.obj[client] :
                  ProjectTotal(internalBreakdown.obj[client][project]) =
                      HoursOf(SelectSeq(InternalEntries,
                                        LAMBDA row : /\ LeafOf(row)[1] = client
                                                     /\ LeafOf(row)[2] = project))

\* the (client, project, task) triples that have a leaf in the breakdown
LeavesOf(breakdown) ==
    UNION {UNION {{<<client, project, task>> :
                       task \in DOMAIN breakdown[client][project]} :
                  project \in DOMAIN breakdown[client]} :
           client \in DOMAIN breakdown}

\* C12.  Rollup ownership: the breakdown is built; every internal entry of
\* filteredData is in the entry list of the leaf at (client, project or
\* 'No Project', task or 'No Task') and of no other leaf, as often as it is
\* in filteredData; no entry that is not internal is in a leaf; each
\* leaf's hours is the sum of its entries' hours and its billableHours the
\* sum over its billable entries.
C12_RollupOwnership ==
    /\ ~RenderThrows
    /\ \A i \in 1..Len(InternalEntries) :
           LeafOf(InternalEntries[i]) \in LeavesOf(internalBreakdown.obj)
    /\ \A key \in LeavesOf(internalBreakdown.obj) :
           LET leaf == internalBreakdown.obj[key[1]][key[2]][key[3]]
           IN  /\ BagOf(leaf.entries) =
                      BagOf(SelectSeq(InternalEntries, LAMBDA row : LeafOf(row) = key))
               /\ \A i \in 1..Len(leaf.entries) : leaf.entries[i].IsInternal
               /\ leaf.hours = HoursOf(leaf.entries)
               /\ leaf.billableHours =
                      HoursOf(SelectSeq(leaf.entries, LAMBDA row : row.Billable = "Yes"))

\* v tenths is n / d to one decimal (d # 0)
IsTenthsOf(v, n, d) == 2 * Abs(v * d - 10 * n) <= Abs(d)

\* C13.  Aggregate statistics: totalHours, billableHours, internalHours and
\* externalHours are the sums of hours over all, billable, internal and
\* non-internal entries of filteredData; utilizationRate is billable /
\* total * 100 and internalRate internal / total * 100 (to one decimal),
\* both 0 when total = 0; uniqueClients, uniqueProjects and the days are
\* the counts of distinct values; avgHoursPerDay is total / days (to one
\* decimal), 0 when there are no days.
C13_AggregateStatistics ==
    LET total    == HoursOf(filteredData)
        billable == HoursOf(SelectSeq(filteredData, LAMBDA row : row.Billable = "Yes"))
        internal == HoursOf(SelectSeq(filteredData, LAMBDA row : row.IsInternal))
        external == HoursOf(SelectSeq(filteredData, LAMBDA row : ~row.IsInternal))
        days     == Cardinality({<<getFullYear(filteredData[i].Date),
                                   getMonth(filteredData[i].Date),
                                   getDate(filteredData[i].Date)>> :
                                     i \in 1..Len(filteredData)})
    IN  /\ statsMemo.totalHours = 10 * total
        /\ statsMemo.billableHours = 10 * billable
        /\ statsMemo.internalHours = 10 * internal
        /\ statsMemo.externalHours = 10 * external
        /\ IF total = 0
           THEN statsMemo.utilizationRate = 0 /\ statsMemo.internalRate = 0
           ELSE /\ IsTenthsOf(statsMemo.utilizationRate, 100 * billable, total)
                /\ IsTenthsOf(statsMemo.internalRate, 100 * internal, total)
        /\ statsMemo.uniqueClients =
               Cardinality({filteredData[i].Client : i \in 1..Len(filteredData)})
        /\ statsMemo.uniqueProjects =
               Cardinality({filteredData[i].Project : i \in 1..Len(filteredData)})
        /\ IF days = 0 THEN statsMemo.avgHoursPerDay = 0
           ELSE IsTenthsOf(statsMemo.avgHoursPerDay, total, days)

\* the calendar month (year, month) of an entry
MonthOf(row) == <<getFullYear(row.Date), getMonth(row.Date)>>

\* the calendar months that hold an entry of filteredData
MonthsHeld == {MonthOf(filteredData[i]) : i \in 1..Len(filteredData)}

\* C14.  Monthly trend grouping: the monthly trend has exactly one record
\* per calendar month (year and month) that holds an entry of filteredData;
\* the entries of one calendar month, whatever their day, add up in that
\* record's total, internal and external; the records are in ascending
\* order of month.
C14_OneRecordPerMonth ==
    \A trend \in monthlyTrend :
        /\ Len(trend) = Cardinality(MonthsHeld)
        /\ \A k \in 1..Len(trend) :
               LET month == <<trend[k].month.y, trend[k].month.m - 1>>
                   mine  == SelectSeq(filteredData, LAMBDA row : MonthOf(row) = month)
               IN  /\ month \in MonthsHeld
                   /\ trend[k].total = HoursOf(mine)
                   /\ trend[k].internal =
                          HoursOf(SelectSeq(mine, LAMBDA row : row.IsInternal))
                   /\ trend[k].external =
                          HoursOf(SelectSeq(mine, LAMBDA row : ~row.IsInternal))
        /\ \A j, k \in 1..Len(trend) :
               j < k => \/ trend[j].month.y < trend[k].month.y
                        \/ /\ trend[j].month.y = trend[k].month.y
                           /\ trend[j].month.m < trend[k].month.m

\* the distinct non-empty task names of filteredData
TaskNames == {filteredData[i].Task : i \in 1..Len(filteredData)} \ {""}

\* C15.  Task frequency map: the map has one record per distinct non-empty
\* task name of filteredData (at most 20 of them), its value the sum of the
\* hours of the task; the records are in descending order of value; each
\* record's size is min(max(value / 10, 12), 48), so 12 <= size <= 48.
C15_TaskFrequencyMap ==
    \A cloud \in taskWordCloud :
        /\ Len(cloud) = IF Cardinality(TaskNames) < 20
                        THEN Cardinality(TaskNames) ELSE 20
        /\ \A j, k \in 1..Len(cloud) : j # k => cloud[j].text # cloud[k].text
        /\ \A k \in 1..Len(cloud) :
               /\ cloud[k].text \in TaskNames
               /\ cloud[k].value.isNumber
               /\ cloud[k].value.n =
                      HoursOf(SelectSeq(filteredData,
                                        LAMBDA row : row.Task = cloud[k].text))
               /\ ~cloud[k].size.nan
               /\ cloud[k].size.tenths >= 120 /\ cloud[k].size.tenths <= 480
               /\ \/ cloud[k].size.tenths = cloud[k].value.n
                  \/ cloud[k].size.tenths = 120 /\ cloud[k].value.n < 120
                  \/ cloud[k].size.tenths = 480 /\ cloud[k].value.n > 480
        /\ \A k \in 1..(Len(cloud) - 1) : cloud[k].value.n >= cloud[k + 1].value.n

\* the place of a text in the order of code units
RankOf(text) == CHOOSE i \in DOMAIN CodeUnitOrder : CodeUnitOrder[i] = text

\* a list of distinct texts in ascending order of code units
IsSortedList(list) ==
    \A j, k \in 1..Len(list) : j < k => RankOf(list[j]) < RankOf(list[k])

\* the members of a list
MembersOf(list) == {list[i] : i \in 1..Len(list)}

\* C16.  Lookup scoping: the projects option list is empty when
\* selectedClient = 'all' and otherwise the sorted list of the distinct
\* non-empty projects of the entries of processedData whose client is
\* selectedClient; the tasks option list is empty when selectedProject =
\* 'all' and otherwise the sorted list of the distinct non-empty tasks of
\* all entries of processedData whose project is selectedProject, whatever
\* their client.
C16_LookupScoping ==
    /\ IsSortedList(projectsList)
    /\ MembersOf(projectsList) =
           IF selectedClient = "all" THEN {}
           ELSE {processedData[i].Project :
                     i \in {n \in 1..Len(processedData) :
                               processedData[n].Client = selectedClient}} \ {""}
    /\ IsSortedList(tasksList)
    /\ MembersOf(tasksList) =
           IF selectedProject = "all" THEN {}
           ELSE {processedData[i].Task :
                     i \in {n \in 1..Len(processedData) :
                               processedData[n].Project = selectedProject}} \ {""}

\* a client and one of its projects are selected, and the two tasks offered
\* include one that only another client's entries have under that project
C16_Witness ==
    /\ selectedClient # "all"
    /\ selectedProject \in MembersOf(projectsList)
    /\ Len(tasksList) = 2
    /\ \E task \in MembersOf(tasksList) :
           \A i \in 1..Len(processedData) :
               processedData[i].Task = task =>
                   processedData[i].Client # selectedClient

\* C17.  No mutation after construction: computing filteredData never
\* changes processedData: when a selection changes, processedData is after
\* the step what it was before it, and when csvData changes, it is the
\* rows of csvData normalised, in their order.
C17_ProcessedDataUntouched ==
    [][/\ csvData' # csvData => processedData' = MapRows(csvData')
       /\ selections' # selections /\ csvData' = csvData =>
              processedData' = processedData]_vars

\* C18.  Hours are non-negative: every row of csvData has its entry in
\* processedData, the Hours of every entry is a number that is at least 0,
\* and a row whose Hours text is no number has an entry with 0 hours.
C18_HoursNonNegative ==
    /\ Len(processedData) = Len(csvData)
    /\ \A j \in 1..Len(processedData) : processedData[j].Hours >= 0
    /\ \A i \in 1..Len(csvData) :
           csvData[i].Hours.kind = "text" =>
               \E j \in 1..Len(processedData) :
                   processedData[j] = [processRow(csvData[i]) EXCEPT !.Hours = 0]

\* C19.  Ingestion failure: when the error callback of a parse runs (on a
\* step that the complete callback could not have taken),
\* csvData, the selections and the derived data stay what they were,
\* loading returns to FALSE, and the failure shows in the state the page is
\* rendered from: that state differs from the one of the idle page over the
\* data held before, which is all a reader of the page sees without a
\* failure.
C19_IngestionFailure ==
    [][(\E i \in 1..Len(parsing) : ParseError(i) /\ ~ParseComplete(i)) =>
           LET idle == <<csvData, FALSE, selections, processedData,
                         filteredData, weeklyUtilization>>
           IN  /\ UNCHANGED <<csvData, selections, processedData,
                              filteredData, weeklyUtilization>>
               /\ loading' = FALSE
               /\ <<csvData, loading, selections, processedData,
                    filteredData, weeklyUtilization>>' # idle]_vars

\* C20.  Division-by-zero avoidance: no ratio is computed as x / 0.  While
\* the overview is rendered, the shoutout test divides billableHours by
\* hours for every record of the three first weeks of weeklyUtilization
\* with nothing before the division: the hours of every such record are not
\* 0.
C20_NoDivisionByZero ==
    FiltersRendered =>
        \A i \in 1..Len(weeklyUtilization) :
            i <= 3 =>
                \A e \in DOMAIN weeklyUtilization[i].emps :
                    weeklyUtilization[i].emps[e].hours # 0

\* C21.  Selection hierarchy: in every state, a selected task comes with a
\* selected project and a selected project with a selected client.
C21_SelectionHierarchy ==
    /\ selectedTask # "all" => selectedProject # "all"
    /\ selectedProject # "all" => selectedClient # "all"

\* a client, a project and a task are selected, and another file is being
\* parsed
C21_Witness ==
    /\ selectedClient # "all"
    /\ selectedProject # "all"
    /\ selectedTask # "all"
    /\ Len(parsing) > 0

\* C22.  Selections stay valid across uploads: in every state, each
\* selection other than 'all' is one of the options its list offers for the
\* data loaded now.
C22_SelectionsOffered ==
    /\ selectedEmployee # "all" => selectedEmployee \in employees
    /\ selectedClient # "all" => selectedClient \in clients
    /\ selectedProject # "all" => selectedProject \in projects
    /\ selectedTask # "all" => selectedTask \in tasks

\* C23.  Offered options are satisfiable: with every employee and all time
\* selected, a client, one of the projects offered for it and one of the
\* tasks offered for that project, once selected, leave at least one entry
\* in filteredData.
C23_OfferedOptionsSatisfiable ==
    (/\ selectedEmployee = "all"
     /\ selectedDateRange = "all"
     /\ selectedClient \in clients
     /\ selectedProject \in projects
     /\ selectedTask \in tasks) => filteredData # <<>>

\* C24.  Latest upload wins: when a second upload was started while the
\* first was being parsed, then on the step that completes the parse still
\* in flight after the other one has loaded its rows, the rows loaded are
\* those of the file chosen last.
C24_LatestUploadWins ==
    [][(csvData # <<>> /\ Len(parsing) = 1 /\ ParseComplete(1)) =>
           csvData' \in {DropUndated(f) : f \in LaterFiles}]_vars

\* C25.  The loading flag tracks the parses in flight: in every state,
\* loading is TRUE while a parse that was started has called neither its
\* complete nor its error callback.
C25_LoadingWhileParsing == Len(parsing) > 0 => loading

\* the hours of the weekly records, added up week by week
RECURSIVE EmployeesHours(_)
EmployeesHours(emps) ==
    IF DOMAIN emps = {} THEN 0
    ELSE LET e == CHOOSE x \in DOMAIN emps : TRUE
         IN  emps[e].hours +
             EmployeesHours([x \in DOMAIN emps \ {e} |-> emps[x]])

WeeklyHours ==
    SumSeq([k \in 1..Len(weeklyUtilization) |->
               EmployeesHours(weeklyUtilization[k].emps)])

\* C26.  Hours conservation: the hours of the weekly records add up to the
\* total hours of filteredData; every weekly record's hours are its internal
\* plus its external hours, and it has from 1 to 7 distinct days; the total
\* hours are the internal plus the external total.
C26_HoursConservation ==
    /\ WeeklyHours = ReduceHours(filteredData)
    /\ \A stats \in AllStats :
           /\ stats.hours = stats.internalHours + stats.externalHours
           /\ Cardinality(stats.days) \in 1..7
    /\ ReduceHours(filteredData) =
           ReduceHours(internalData) + ReduceHours(externalData)

\* two weeks have records, and one record has internal and external hours
\* on more than one day
C26_Witness ==
    /\ Len(weeklyUtilization) >= 2
    /\ \E stats \in AllStats :
           /\ stats.internalHours # 0
           /\ stats.externalHours # 0
           /\ Cardinality(stats.days) >= 2

\* C27.  Last-N-days looks only backward: while a date range other than
\* 'all' is selected, no entry of filteredData is dated later than now.
C27_RangeLooksBackward ==
    selectedDateRange # "all" =>
        \A i \in 1..Len(filteredData) :
            /\ filteredData[i].Date.valid
            /\ filteredData[i].Date.t <= now

=============================================================================
